---------------------------- MODULE Spec2Model ----------------------------
(***************************************************************************)
(* Off-chain token pricing engine of the Fame backend                      *)
(* (backend/app/pricing.py) together with its two callers, the trade       *)
(* endpoint (backend/app/routers/trades.py) and the market-data endpoints  *)
(* (backend/app/routers/market.py).                                        *)
(*                                                                         *)
(* Numbers.  Python Decimals are modelled as scaled integers:              *)
(*   - a quantity of tokens (amount, supply, ledger amount) n stands for   *)
(*     n / 10^4 tokens;                                                    *)
(*   - a price p stands for p / 10^9.                                      *)
(* On this grid BASE_PRICE = 1.0 is 10^9 and K = 0.0025 per token is 250   *)
(* per quantity unit, K * (2*s + a) is always even, so the Decimal         *)
(* division by 2 of quote_trade is exact, as it is in Python (28           *)
(* significant digits).  A price with more than 8 fractional digits is one *)
(* that is no multiple of 10.                                              *)
(*                                                                         *)
(* Database.  Each request handler owns one SQLAlchemy session             *)
(* (SessionLocal(), autoflush off).  A SELECT sees the committed rows, a   *)
(* flushed INSERT stays private to its session until COMMIT, db.close()    *)
(* without commit rolls the session back.  The committed tables are the    *)
(* variables influencers, tokens, trades and ledger.                       *)
(***************************************************************************)
EXTENDS Integers, Sequences, FiniteSets, TLC

VARIABLES
    influencers,   \* ids of the committed rows of table influencers
    tokens,        \* committed rows of influencer_token_state, in rowid order
    trades,        \* committed rows of table trades, in id order
    ledger,        \* committed rows of table wallet_ledger, in id order
    events,        \* realtime events published so far
    sess,          \* per worker: the request in flight and its session
    market,        \* the last response of a market-data endpoint
    qcall          \* the last direct call of quote_trade: arguments and result

vars == <<influencers, tokens, trades, ledger, events, sess, market, qcall>>

-----------------------------------------------------------------------------
(* Bounds of the model *)

MaxTrades == 2        \* trade requests admitted in a run of Spec
MaxDeepTrades == 3    \* trade requests admitted in a run of DeepSpec
MaxSupply == 6        \* the supply, in half tokens, direct engine buys may reach

Sessions == {"w1", "w2"}
Users == {"u1", "u2"}
InfluencerIds == {1, 2}
\* request amounts: 0, 0.5 and 1 token
Amounts == {0, 5000, 10000}
\* amounts of direct engine calls
EngineAmounts == {-5000, 0, 5000, 10000}
None == "<None>"
TradeTypes == {"buy", "sell", "BUY", "hold"}
EngineTypes == {"buy", "sell", "Sell", "hold", "", None}

-----------------------------------------------------------------------------
(* pricing.py: constants and helpers *)

BASE_PRICE == 1000000000
K == 250

\* _to_dec: Decimal(str(v)).  A model quantity already is the decimal value
\* of the repr of the Python number, so the conversion keeps it.
ToDec(v) == v

\* (trade_type or "").lower()
Lower(t) ==
    CASE t = None -> ""
      [] t = "BUY" -> "buy"
      [] t = "Sell" -> "sell"
      [] OTHER -> t

ErrAmount == "amount must be positive"
ErrType == "trade_type must be 'buy' or 'sell'"
ErrSupply == "cannot sell more than circulating supply"

NoQuote == [ok |-> FALSE, error |-> "", avg_price |-> 0, new_price |-> 0, new_supply |-> 0]

Raise(msg) == [NoQuote EXCEPT !.error = msg]

TradeQuote(avg, new_price, new_supply) ==
    [ok |-> TRUE, error |-> "", avg_price |-> avg, new_price |-> new_price, new_supply |-> new_supply]

\* the marginal price of line 77
MarginalPrice(supply) == BASE_PRICE + K * supply

\* faulty variant: the new price is the marginal price at the old supply
QuoteBuyStalePrice(s, a) ==
    TradeQuote(BASE_PRICE + (K * (2 * s + a)) \div 2, MarginalPrice(s), s + a)

\* faulty variant: the buy is priced at the marginal price after it
QuoteBuyEndPrice(s, a) ==
    TradeQuote(MarginalPrice(s + a), MarginalPrice(s + a), s + a)

\* faulty variant: the buy is priced at the marginal price before it
QuoteBuyStartPrice(s, a) ==
    TradeQuote(MarginalPrice(s), MarginalPrice(s + a), s + a)

\* the buy branch, lines 66-69 and 77-78
QuoteBuy(s, a) ==
    TradeQuote(BASE_PRICE + (K * (2 * s + a)) \div 2, MarginalPrice(s + a), s + a)

\* faulty variant: the sell branch without the check of lines 71-72
QuoteSellUnchecked(s, a) ==
    TradeQuote(BASE_PRICE + (K * (2 * (s - a) + a)) \div 2, MarginalPrice(s - a), s - a)

\* faulty variant: a sell of the whole supply is refused
QuoteSellStrict(s, a) ==
    IF a >= s
    THEN Raise(ErrSupply)
    ELSE TradeQuote(BASE_PRICE + (K * (2 * (s - a) + a)) \div 2, MarginalPrice(s - a), s - a)

\* faulty variant: the sell is priced at the marginal price after it
QuoteSellEndPrice(s, a) ==
    IF a > s
    THEN Raise(ErrSupply)
    ELSE TradeQuote(MarginalPrice(s - a), MarginalPrice(s - a), s - a)

\* faulty variant: the sell is priced at the marginal price before it
QuoteSellStartPrice(s, a) ==
    IF a > s
    THEN Raise(ErrSupply)
    ELSE TradeQuote(MarginalPrice(s), MarginalPrice(s - a), s - a)

\* faulty variant: the new price of a sell is the marginal price at the old supply
QuoteSellStalePrice(s, a) ==
    IF a > s
    THEN Raise(ErrSupply)
    ELSE TradeQuote(BASE_PRICE + (K * (2 * (s - a) + a)) \div 2, MarginalPrice(s), s - a)

\* the sell branch, lines 70-78
QuoteSell(s, a) ==
    IF a > s
    THEN Raise(ErrSupply)
    ELSE TradeQuote(BASE_PRICE + (K * (2 * (s - a) + a)) \div 2, MarginalPrice(s - a), s - a)

\* faulty variant: the direction is checked before the amount
QuoteTradeTypeFirst(current_supply, amount, trade_type) ==
    LET s == ToDec(current_supply)
        a == ToDec(amount)
        t == Lower(trade_type)
    IN  IF t \notin {"buy", "sell"} THEN Raise(ErrType)
        ELSE IF a <= 0 THEN Raise(ErrAmount)
        ELSE IF t = "buy" THEN QuoteBuy(s, a)
        ELSE QuoteSell(s, a)

\* faulty variant: without the check of lines 63-64 every direction but buy is a sell
QuoteTradeDefaultSell(current_supply, amount, trade_type) ==
    LET s == ToDec(current_supply)
        a == ToDec(amount)
        t == Lower(trade_type)
    IN  IF a <= 0 THEN Raise(ErrAmount)
        ELSE IF t = "buy" THEN QuoteBuy(s, a)
        ELSE QuoteSell(s, a)

\* pricing.py 57-78
quote_trade(current_supply, amount, trade_type) ==
    LET s == ToDec(current_supply)
        a == ToDec(amount)
        t == Lower(trade_type)
    IN  IF a <= 0 THEN Raise(ErrAmount)
        ELSE IF t \notin {"buy", "sell"} THEN Raise(ErrType)
        ELSE IF t = "buy" THEN QuoteBuy(s, a)
        ELSE QuoteSell(s, a)

-----------------------------------------------------------------------------
(* Tables *)

TokenRow(i, supply, price) == [influencer_id |-> i, supply |-> supply, price |-> price]

\* what the supply and price columns keep of a Decimal written to them:
\* arbitrary-precision decimals, every digit
StoredDecimal(x) == x

\* db.query(InfluencerTokenState).filter(influencer_id == i).first():
\* the rowid of the first committed row of influencer i, 0 when there is none
FirstRow(i) ==
    LET hits == {k \in 1..Len(tokens) : tokens[k].influencer_id = i}
    IN  IF hits = {} THEN 0 ELSE CHOOSE k \in hits : \A j \in hits : k <= j

RECURSIVE SumAmounts(_)
SumAmounts(rows) ==
    IF rows = <<>> THEN 0 ELSE Head(rows).amount + SumAmounts(Tail(rows))

\* trades.py 66-71: the sum of the user's ledger amounts for the influencer
Balance(u, i) ==
    SumAmounts(SelectSeq(ledger, LAMBDA r : r.user_id = u /\ r.influencer_id = i))

-----------------------------------------------------------------------------
(* Sessions *)

NoState == [id |-> 0, supply |-> 0, price |-> 0]

Idle ==
    [pc |-> "idle", via |-> "", user |-> "", inf |-> 0, amount |-> 0, ttype |-> "",
     state |-> NoState, pending |-> FALSE, read |-> 0, quote |-> NoQuote,
     status |-> 0, err |-> "", trade_id |-> 0]

InFlight == Cardinality({s \in Sessions : sess[s].pc # "idle"})


-----------------------------------------------------------------------------
(* Influencer creation *)

\* the id the autoincrement primary key hands out next
NextInfluencerId == Cardinality(influencers) + 1

\* crud.create_influencer: an influencer row and no token state
CreateInfluencer ==
    /\ NextInfluencerId \in InfluencerIds
    /\ influencers' = influencers \cup {NextInfluencerId}
    /\ UNCHANGED <<tokens, trades, ledger, events, sess, market, qcall>>

\* the column defaults of InfluencerTokenState(influencer_id=...)
DefaultTokenRow(i) == TokenRow(i, 0, BASE_PRICE)

\* the build task: the influencer and its token state in one commit
BuildInfluencer ==
    /\ NextInfluencerId \in InfluencerIds
    /\ influencers' = influencers \cup {NextInfluencerId}
    /\ tokens' = Append(tokens, DefaultTokenRow(NextInfluencerId))
    /\ UNCHANGED <<trades, ledger, events, sess, market, qcall>>

-----------------------------------------------------------------------------
(* create_trade, trades.py 43-123.  A step ends where the handler reads or  *)
(* writes a table other sessions write: the ledger (line 66), the token     *)
(* state (pricing.py 48 and 53) and the commit (line 96).  Influencer rows  *)
(* are never deleted, so the lookup of line 52 is part of the first step.   *)

ErrNotFound == "Influencer not found"
ErrBalance == "Insufficient token balance"
ErrIntegrity == "IntegrityError"

\* faulty variant: a request that raised still goes on to publish its event
FailedPublishes(r, code, msg, pend) ==
    [r EXCEPT !.pc = "publish", !.status = code, !.err = msg, !.pending = FALSE]

\* an exception leaves the handler: the HTTP status and the message reach the
\* client, the handler's locals are dead, the session is still open
Failed(r, code, msg, pend) ==
    [Idle EXCEPT !.pc = "failed", !.via = r.via, !.status = code, !.err = msg,
                 !.pending = pend, !.inf = IF pend THEN r.inf ELSE 0]

\* faulty variant: the handler without the balance check of lines 64-73
ValidateNoBalance(u, i, amt, t) ==
    IF i \notin influencers THEN <<404, ErrNotFound>>
    ELSE IF Lower(t) \notin {"buy", "sell"} THEN <<400, ErrType>>
    ELSE IF amt <= 0 THEN <<400, ErrAmount>>
    ELSE <<0, "">>

\* lines 52-73: the checks made before the engine is called
Validate(u, i, amt, t) ==
    IF i \notin influencers THEN <<404, ErrNotFound>>
    ELSE IF Lower(t) \notin {"buy", "sell"} THEN <<400, ErrType>>
    ELSE IF amt <= 0 THEN <<400, ErrAmount>>
    ELSE IF Lower(t) = "sell" /\ ToDec(amt) > Balance(u, i) THEN <<400, ErrBalance>>
    ELSE <<0, "">>

\* a request arrives: payload (i, amt, t) of user u, handled by worker s
Request(s, u, i, amt, t) ==
    /\ sess[s].pc = "idle"
    /\ LET v == Validate(u, i, amt, t)
           r == [Idle EXCEPT !.via = "create_trade", !.user = u, !.inf = i,
                             !.amount = ToDec(amt), !.ttype = Lower(t)]
       IN  sess' = [sess EXCEPT ![s] =
                IF v[1] = 0
                THEN [r EXCEPT !.pc = "execute"]
                ELSE Failed(r, v[1], v[2], FALSE)]
    /\ UNCHANGED <<influencers, tokens, trades, ledger, events, market, qcall>>

\* faulty variant: the quote handed back is computed again after the state was updated
PricedRequoted(r, st, pend) ==
    LET q == quote_trade(st.supply, r.amount, r.ttype)
    IN  IF q.ok
        THEN [r EXCEPT !.pc = "commit", !.pending = pend, !.read = st.supply,
                       !.quote = quote_trade(q.new_supply, r.amount, "buy"),
                       !.state = [st EXCEPT !.supply = q.new_supply, !.price = q.new_price]]
        ELSE Failed(r, 500, q.error, pend)

\* pricing.py 87-91 on the loaded state object st: quote, then assign
Priced(r, st, pend) ==
    LET q == quote_trade(st.supply, r.amount, r.ttype)
    IN  IF q.ok
        THEN [r EXCEPT !.pc = "commit", !.pending = pend, !.read = st.supply, !.quote = q,
                       !.state = [st EXCEPT !.supply = q.new_supply, !.price = q.new_price]]
        ELSE Failed(r, 500, q.error, pend)

\* execute_trade, pricing.py 86: the SELECT of get_or_create_state (line 48);
\* when it finds the row the rest of execute_trade runs on it
ExecuteTrade(s) ==
    /\ sess[s].pc = "execute"
    /\ LET k == FirstRow(sess[s].inf)
       IN  sess' = [sess EXCEPT ![s] =
                IF k = 0
                THEN [@ EXCEPT !.pc = "insert"]
                ELSE Priced(@, [id |-> k, supply |-> tokens[k].supply, price |-> tokens[k].price], FALSE)]
    /\ UNCHANGED <<influencers, tokens, trades, ledger, events, market, qcall>>

\* another session holds a flushed, uncommitted row of influencer i
PendingElsewhere(s, i) ==
    \E o \in Sessions \ {s} : sess[o].pending /\ sess[o].inf = i

\* the unique key on influencer_id: the INSERT of a second row is refused
UniqueViolation(i) == FirstRow(i) # 0

\* faulty variant: the INSERT goes through whatever rows of the key exist
InsertStateUnchecked(s) ==
    /\ sess[s].pc = "insert"
    /\ sess' = [sess EXCEPT ![s] = Priced(@, [id |-> 0, supply |-> 0, price |-> BASE_PRICE], TRUE)]
    /\ UNCHANGED <<influencers, tokens, trades, ledger, events, market, qcall>>

\* pricing.py 51-53: the state object is created and flushed (INSERT); it
\* waits for a concurrent uncommitted INSERT of the same key
InsertState(s) ==
    /\ sess[s].pc = "insert"
    /\ ~PendingElsewhere(s, sess[s].inf)
    /\ sess' = [sess EXCEPT ![s] =
            IF UniqueViolation(sess[s].inf)
            THEN Failed(@, 500, ErrIntegrity, FALSE)
            ELSE Priced(@, [id |-> 0, supply |-> 0, price |-> BASE_PRICE], TRUE)]
    /\ UNCHANGED <<influencers, tokens, trades, ledger, events, market, qcall>>

\* faulty variant: the flush writes the supply and leaves the price column as it was
FlushStateSupplyOnly(r) ==
    IF r.pending
    THEN Append(tokens, TokenRow(r.inf, r.state.supply, BASE_PRICE))
    ELSE [tokens EXCEPT ![r.state.id] = [@ EXCEPT !.supply = r.state.supply]]

\* faulty variant: the UPDATE of a loaded state reaches every row of the table
FlushStateEveryRow(r) ==
    IF r.pending
    THEN Append(tokens, TokenRow(r.inf, StoredDecimal(r.state.supply), StoredDecimal(r.state.price)))
    ELSE [k \in 1..Len(tokens) |-> [tokens[k] EXCEPT !.supply = StoredDecimal(r.state.supply),
                                                     !.price = StoredDecimal(r.state.price)]]

\* the flush of the session's token state at COMMIT: the pending row is
\* inserted with its current values, a loaded row is updated by primary key
FlushState(r) ==
    IF r.pending
    THEN Append(tokens, TokenRow(r.inf, StoredDecimal(r.state.supply), StoredDecimal(r.state.price)))
    ELSE [tokens EXCEPT ![r.state.id] = [@ EXCEPT !.supply = StoredDecimal(r.state.supply),
                                                  !.price = StoredDecimal(r.state.price)]]

\* what a Numeric(18, 8) column keeps of a price: 8 fractional digits.  A
\* ninth digit is rounded to the nearest; at a tie the digit kept depends on
\* the store (PostgreSQL rounds half away from zero, SQLite keeps a binary
\* float that is formatted back to 8 digits), so both neighbours are possible.
\* Quantities of the model have 4 fractional digits and are kept as they are.
NumericColumn(x) ==
    LET r == x % 10
    IN  IF r = 0 THEN {x}
        ELSE IF r < 5 THEN {x - r}
        ELSE IF r > 5 THEN {x - r + 10}
        ELSE {x - r, x - r + 10}

\* faulty variant: the record is priced at the new marginal price
TradeRecordNewPrice(r) ==
    [user_id |-> r.user, influencer_id |-> r.inf, amount |-> r.amount,
     price |-> r.quote.new_price, trade_type |-> r.ttype]

\* lines 78-84: the Trade object, its price Decimal(str(quote.avg_price))
TradeRecord(r) ==
    [user_id |-> r.user, influencer_id |-> r.inf, amount |-> r.amount,
     price |-> r.quote.avg_price, trade_type |-> r.ttype]

\* lines 88-93
LedgerEntry(r) ==
    [user_id |-> r.user, influencer_id |-> r.inf,
     amount |-> IF r.ttype = "buy" THEN r.amount ELSE -r.amount]

\* lines 76-97: trade and ledger entry are added, db.commit(); the INSERT
\* of the trade stores its price in the Numeric(18, 8) column
Commit(s) ==
    /\ sess[s].pc = "commit"
    /\ sess[s].via = "create_trade"
    /\ tokens' = FlushState(sess[s])
    /\ \E p \in NumericColumn(TradeRecord(sess[s]).price) :
          trades' = Append(trades, [TradeRecord(sess[s]) EXCEPT !.price = p])
    /\ ledger' = Append(ledger, LedgerEntry(sess[s]))
    /\ sess' = [sess EXCEPT ![s] = [@ EXCEPT !.pc = "publish", !.pending = FALSE,
                                            !.status = 201, !.trade_id = Len(trades) + 1]]
    /\ UNCHANGED <<influencers, events, market, qcall>>

\* faulty variant: the price published is one the requesting user picks
TradeEventUserPrice(r) ==
    [type |-> "trade.created", trade_id |-> r.trade_id, user_id |-> r.user,
     influencer_id |-> r.inf, amount |-> r.amount,
     price |-> IF r.user = "u2" THEN BASE_PRICE ELSE r.quote.avg_price,
     new_price |-> r.quote.new_price, new_supply |-> r.quote.new_supply,
     trade_type |-> r.ttype]

\* lines 99-111; float() keeps the values of the model's grid
TradeEvent(r) ==
    [type |-> "trade.created", trade_id |-> r.trade_id, user_id |-> r.user,
     influencer_id |-> r.inf, amount |-> r.amount, price |-> r.quote.avg_price,
     new_price |-> r.quote.new_price, new_supply |-> r.quote.new_supply,
     trade_type |-> r.ttype]

\* lines 99-123: the event is published, the response returned, the session
\* closed.  The amounts of the model keep the notional below 1000, so the
\* big-buy notification of lines 113-121 is not sent.
Publish(s) ==
    /\ sess[s].pc = "publish"
    /\ events' = events \cup {TradeEvent(sess[s])}
    /\ sess' = [sess EXCEPT ![s] = Idle]
    /\ UNCHANGED <<influencers, tokens, trades, ledger, market, qcall>>

\* faulty variant: closing the session keeps the row it flushed
RollbackKeepsFlushed(r) ==
    IF r.pending THEN Append(tokens, TokenRow(r.inf, 0, BASE_PRICE)) ELSE tokens

\* db.close() without commit: what the session r flushed is discarded, the
\* committed table stays as it is
Rollback(r) == tokens

\* get_db's finally after an exception: db.close() rolls the session back
Close(s) ==
    /\ sess[s].pc = "failed"
    /\ tokens' = Rollback(sess[s])
    /\ sess' = [sess EXCEPT ![s] = Idle]
    /\ UNCHANGED <<influencers, trades, ledger, events, market, qcall>>

-----------------------------------------------------------------------------
(* execute_trade called on its own, pricing.py 81-91.  The caller does what *)
(* create_trade does around the call: commit when it returns, close the     *)
(* session when it raises.                                                  *)

\* the arguments reach quote_trade as they are
EngineCall(s, i, amt, t) ==
    /\ sess[s].pc = "idle"
    /\ i \in influencers
    /\ sess' = [sess EXCEPT ![s] = [Idle EXCEPT !.pc = "execute", !.via = "execute_trade",
                                                !.inf = i, !.amount = amt, !.ttype = t]]
    /\ UNCHANGED <<influencers, tokens, trades, ledger, events, market, qcall>>

\* the caller commits; the quote is in its hands
EngineCommit(s) ==
    /\ sess[s].pc = "commit"
    /\ sess[s].via = "execute_trade"
    /\ tokens' = FlushState(sess[s])
    /\ sess' = [sess EXCEPT ![s] = [@ EXCEPT !.pc = "returned", !.pending = FALSE]]
    /\ UNCHANGED <<influencers, trades, ledger, events, market, qcall>>

\* the caller is done with the quote
EngineReturn(s) ==
    /\ sess[s].pc = "returned"
    /\ sess' = [sess EXCEPT ![s] = Idle]
    /\ UNCHANGED <<influencers, tokens, trades, ledger, events, market, qcall>>

\* faulty variant: a quote that succeeds is written to every stored token state
QuoteCallWrites(supply, amt, t) ==
    LET q == quote_trade(supply, amt, t)
    IN  /\ qcall' = [supply |-> supply, amount |-> amt, trade_type |-> t, result |-> q]
        /\ tokens' = [k \in 1..Len(tokens) |->
                         IF q.ok THEN [tokens[k] EXCEPT !.supply = q.new_supply, !.price = q.new_price]
                         ELSE tokens[k]]
        /\ UNCHANGED <<influencers, trades, ledger, events, sess, market>>

\* quote_trade called on its own
QuoteCall(supply, amt, t) ==
    /\ qcall' = [supply |-> supply, amount |-> amt, trade_type |-> t,
                 result |-> quote_trade(supply, amt, t)]
    /\ UNCHANGED <<influencers, tokens, trades, ledger, events, sess, market>>

-----------------------------------------------------------------------------
(* Market data, market.py.  A handler reads, answers and closes its session *)
(* without commit; it is one step.                                          *)

Min(a, b) == IF a <= b THEN a ELSE b
Max(a, b) == IF a >= b THEN a ELSE b

NoMarket ==
    [op |-> "", status |-> 0, influencer_id |-> 0, asks |-> <<>>, bids |-> <<>>,
     price |-> 0, supply |-> 0, rows |-> <<>>]

\* faulty variant: the fresh object is made without a price
LoadStateNoPrice(i) ==
    IF FirstRow(i) # 0
    THEN [id |-> FirstRow(i), supply |-> tokens[FirstRow(i)].supply, price |-> tokens[FirstRow(i)].price]
    ELSE [id |-> 0, supply |-> 0, price |-> 0]

\* get_or_create_state as a reader sees it: the committed row, or the fresh
\* object of lines 51-53
LoadState(i) ==
    IF FirstRow(i) # 0
    THEN [id |-> FirstRow(i), supply |-> tokens[FirstRow(i)].supply, price |-> tokens[FirstRow(i)].price]
    ELSE [id |-> 0, supply |-> 0, price |-> BASE_PRICE]

\* market.py 102: 1, 2, 5, 10, 25, 50 and 100 tokens
BaseAmounts == <<10000, 20000, 50000, 100000, 250000, 500000, 1000000>>

\* market.py 103
LevelCount(levels) == Max(1, Min(levels, Len(BaseAmounts)))

Level(amt, q) == [amount |-> amt, ok |-> q.ok, avg_price |-> q.avg_price, new_price |-> q.new_price]

\* market.py 108-109
Asks(supply, n) ==
    [k \in 1..n |-> Level(BaseAmounts[k], quote_trade(supply, BaseAmounts[k], "buy"))]

\* faulty variant: the sell amount is not clamped to the supply
SellAmountUnclamped(amt, supply) == amt

\* market.py 112
SellAmount(amt, supply) == IF amt <= supply THEN amt ELSE supply

\* market.py 112-115
Bids(supply, n) ==
    LET clamped == [k \in 1..n |-> SellAmount(BaseAmounts[k], supply)]
        kept == SelectSeq(clamped, LAMBDA a : a > 0)
    IN  [k \in 1..Len(kept) |-> Level(kept[k], quote_trade(supply, kept[k], "sell"))]

AllOk(levels) == \A k \in 1..Len(levels) : levels[k].ok

\* market.py 94-124
OrderbookResponse(i, levels) ==
    LET state == LoadState(i)
        asks == Asks(state.supply, LevelCount(levels))
        bids == Bids(state.supply, LevelCount(levels))
    IN  IF i \notin influencers
        THEN [NoMarket EXCEPT !.op = "orderbook", !.status = 404]
        ELSE IF ~(AllOk(asks) /\ AllOk(bids))
        THEN [NoMarket EXCEPT !.op = "orderbook", !.status = 500]
        ELSE [NoMarket EXCEPT !.op = "orderbook", !.status = 200, !.influencer_id = i,
                              !.asks = asks, !.bids = bids,
                              !.price = state.price, !.supply = state.supply]

\* faulty variant: the handler commits the state moved by its first buy quote
MarketCloseWrites(I) ==
    [k \in 1..Len(tokens) |->
        IF tokens[k].influencer_id \in I
        THEN [tokens[k] EXCEPT !.supply = @ + BaseAmounts[1],
                               !.price = MarginalPrice(tokens[k].supply + BaseAmounts[1])]
        ELSE tokens[k]]

\* the committed token table after a market-data handler for influencers I
\* has closed its session: nothing is committed
MarketClose(I) == tokens

\* a reader's INSERT of a missing row waits for a concurrent INSERT of the key
ReaderFree(i) == FirstRow(i) # 0 \/ ~PendingElsewhere("", i)

Orderbook(i, levels) ==
    /\ ReaderFree(i)
    /\ market' = OrderbookResponse(i, levels)
    /\ tokens' = MarketClose({i})
    /\ UNCHANGED <<influencers, trades, ledger, events, sess, qcall>>

\* market.py 73-91
TokenDetail(i) ==
    /\ ReaderFree(i)
    /\ market' = IF i \notin influencers
                 THEN [NoMarket EXCEPT !.op = "token_detail", !.status = 404]
                 ELSE [NoMarket EXCEPT !.op = "token_detail", !.status = 200, !.influencer_id = i,
                                       !.price = LoadState(i).price, !.supply = LoadState(i).supply]
    /\ tokens' = MarketClose({i})
    /\ UNCHANGED <<influencers, trades, ledger, events, sess, qcall>>

\* the influencer ids in descending order (market.py 43)
RECURSIVE Descending(_)
Descending(ids) ==
    IF ids = {} THEN <<>>
    ELSE LET m == CHOOSE x \in ids : \A y \in ids : y <= x
         IN  <<m>> \o Descending(ids \ {m})

\* market.py 39-47: offset skip, limit clamped to 1..100
Page(skip, limit) ==
    LET all == Descending(influencers)
        lim == Min(Max(limit, 1), 100)
    IN  SubSeq(all, skip + 1, Min(Len(all), skip + lim))

\* market.py 36-70
ListTokens(skip, limit) ==
    LET page == Page(skip, limit)
    IN  /\ \A k \in 1..Len(page) : ReaderFree(page[k])
        /\ market' = [NoMarket EXCEPT !.op = "list_tokens", !.status = 200,
                          !.rows = [k \in 1..Len(page) |->
                                      [influencer_id |-> page[k], price |-> LoadState(page[k]).price,
                                       supply |-> LoadState(page[k]).supply]]]
        /\ tokens' = MarketClose({page[k] : k \in 1..Len(page)})
        /\ UNCHANGED <<influencers, trades, ledger, events, sess, qcall>>


-----------------------------------------------------------------------------
(* Specifications *)

\* an empty database, every worker idle
Init ==
    /\ influencers = {}
    /\ tokens = <<>>
    /\ trades = <<>>
    /\ ledger = <<>>
    /\ events = {}
    /\ sess = [s \in Sessions |-> Idle]
    /\ market = NoMarket
    /\ qcall = [supply |-> 0, amount |-> 0, trade_type |-> "", result |-> NoQuote]

\* the bound of a run: at most limit trade requests are admitted
Admit(limit) == Len(trades) + InFlight < limit

\* the steps of the workers S on requests of users U for influencers I
TradeSteps(S, U, I, limit) ==
    \/ \E s \in S, u \in U, i \in I, amt \in Amounts, t \in TradeTypes :
          Admit(limit) /\ Request(s, u, i, amt, t)
    \/ \E s \in S : ExecuteTrade(s)
    \/ \E s \in S : InsertState(s)
    \/ \E s \in S : Commit(s)
    \/ \E s \in S : Publish(s)
    \/ \E s \in S : Close(s)

Next ==
    \/ CreateInfluencer
    \/ BuildInfluencer
    \/ TradeSteps(Sessions, Users, InfluencerIds, MaxTrades)

Spec == Init /\ [][Next]_vars

\* one influencer whose token state is created on first access, more requests
DeepNext ==
    \/ CreateInfluencer
    \/ TradeSteps(Sessions, Users, {1}, MaxDeepTrades)

DeepSpec == Init /\ [][DeepNext]_vars

\* a direct buy is admitted while the supply stays within the bound
EngineAdmit(i, amt, t) ==
    Lower(t) = "buy" => LoadState(i).supply + amt <= 5000 * MaxSupply

\* execute_trade called directly by one worker, with any arguments
EngineNext ==
    \/ CreateInfluencer
    \/ \E i \in InfluencerIds, amt \in EngineAmounts, t \in EngineTypes :
          EngineAdmit(i, amt, t) /\ EngineCall("w1", i, amt, t)
    \/ ExecuteTrade("w1")
    \/ InsertState("w1")
    \/ EngineCommit("w1")
    \/ EngineReturn("w1")
    \/ Close("w1")

EngineSpec == Init /\ [][EngineNext]_vars

SkipValues == {0, 1}
LimitValues == {0, 1, 50}
LevelValues == {-1, 0, 2, 9}

\* the market-data endpoints beside one trading worker
MarketNext ==
    \/ CreateInfluencer
    \/ BuildInfluencer
    \/ TradeSteps({"w1"}, {"u1"}, InfluencerIds, MaxTrades)
    \/ \E i \in InfluencerIds \cup {3}, levels \in LevelValues : Orderbook(i, levels)
    \/ \E i \in InfluencerIds \cup {3} : TokenDetail(i)
    \/ \E skip \in SkipValues, limit \in LimitValues : ListTokens(skip, limit)

MarketSpec == Init /\ [][MarketNext]_vars

\* supplies and amounts of direct quotes: up to 1 token, and 100 tokens
QuoteSupplies == {0, 5000, 10000, 1000000}
QuoteAmounts == EngineAmounts \cup {1000000}

\* quote_trade called with any arguments beside one trading worker
QuoteNext ==
    \/ CreateInfluencer
    \/ TradeSteps({"w1"}, {"u1"}, {1}, MaxTrades)
    \/ \E supply \in QuoteSupplies, amt \in QuoteAmounts, t \in EngineTypes :
          QuoteCall(supply, amt, t)

QuoteSpec == Init /\ [][QuoteNext]_vars

\* one worker: the requests for one influencer are handled one after another
SerialNext ==
    \/ CreateInfluencer
    \/ TradeSteps({"w1"}, Users, {1}, MaxDeepTrades)

SerialSpec == Init /\ [][SerialNext]_vars

\* one worker per influencer: executions for different influencers overlap,
\* executions for one influencer do not
PairNext ==
    \/ CreateInfluencer
    \/ TradeSteps({"w1"}, Users, {1}, MaxDeepTrades)
    \/ TradeSteps({"w2"}, Users, {2}, MaxDeepTrades)

PairSpec == Init /\ [][PairNext]_vars

\* request amounts down to the last digit of the quantity grid: 0.0001,
\* 0.0002 and 0.5 token
FineAmounts == {1, 2, 5000}

\* one worker, one user, amounts with four fractional digits
PrecisionNext ==
    \/ CreateInfluencer
    \/ \E amt \in FineAmounts, t \in {"buy", "sell"} :
          Admit(MaxDeepTrades) /\ Request("w1", "u1", 1, amt, t)
    \/ ExecuteTrade("w1")
    \/ InsertState("w1")
    \/ Commit("w1")
    \/ Publish("w1")
    \/ Close("w1")

PrecisionSpec == Init /\ [][PrecisionNext]_vars

-----------------------------------------------------------------------------
(* Properties *)

TradesOf(i) == SelectSeq(trades, LAMBDA r : r.influencer_id = i)

StoredSupply(i) == LoadState(i).supply

StoredPrice(i) == LoadState(i).price

Executed(s) == sess[s].pc \in {"commit", "publish", "returned"}

\* C1: when the committed trades of an influencer are N buys of one amount a,
\* started from supply 0, the stored supply is N * a, whatever the
\* interleaving of the executions was.
C1_NoLostUpdate ==
    \A i \in InfluencerIds, a \in Amounts :
        (\A k \in 1..Len(TradesOf(i)) :
            TradesOf(i)[k].trade_type = "buy" /\ TradesOf(i)[k].amount = a)
        => StoredSupply(i) = Len(TradesOf(i)) * a

\* C2: executions for one influencer are serializable: an execution that
\* commits has read the supply that is stored when it commits, the one
\* written by the execution before it, so no two committed executions
\* start from the same supply.
C2_Serializable ==
    [][\A s \in Sessions :
          (sess[s].pc = "commit" /\ sess'[s].pc = "publish")
          => sess[s].read = StoredSupply(sess[s].inf)]_vars

C4_SupplyNonNegative ==
    /\ \A k \in 1..Len(tokens) : tokens[k].supply >= 0
    /\ \A s \in Sessions :
          (Executed(s) /\ Lower(sess[s].ttype) = "sell") => sess[s].amount <= sess[s].read

\* a sell larger than the supply was rejected while tokens circulate
C4_Witness ==
    /\ sess["w1"].pc = "failed"
    /\ sess["w1"].err = ErrSupply
    /\ \E k \in 1..Len(tokens) : tokens[k].supply > 0

\* C5: when quote_trade fails inside execute_trade no step of the call, up
\* to and including the close of the session, changes the committed token
\* states (no row appears, no supply or price moves), and the error the
\* caller gets is the error of quote_trade.
C5_FailureLeavesState ==
    [][\A s \in Sessions :
          LET r == sess[s]
              q == quote_trade(StoredSupply(r.inf), r.amount, r.ttype)
          IN  /\ (r.via = "execute_trade" /\ r.pc \in {"execute", "insert"} /\ ~q.ok /\ sess'[s] # r)
                 => /\ tokens' = tokens
                    /\ sess'[s].pc \in {"insert", "failed"}
                    /\ sess'[s].pc = "failed" => sess'[s].err = q.error
              /\ (r.pc = "failed" /\ sess'[s] # r) => tokens' = tokens]_vars

\* execute_trade created and flushed a row, then quote_trade refused the amount
C5_Witness ==
    /\ sess["w1"].pc = "failed"
    /\ sess["w1"].pending
    /\ sess["w1"].err = ErrAmount
    /\ FirstRow(sess["w1"].inf) = 0

\* C6: every write of a token state by a session sets supply and price
\* together to the new_supply and new_price of that session's one quote.
C6_WrittenTogether ==
    [][\A k \in 1..Len(tokens') :
          ((k <= Len(tokens) /\ tokens'[k] # tokens[k]) \/ (k > Len(tokens) /\ influencers' = influencers))
          => \E s \in Sessions :
                /\ sess[s].pc = "commit"
                /\ sess[s].quote.ok
                /\ tokens'[k] = TokenRow(sess[s].inf, StoredDecimal(sess[s].quote.new_supply),
                                         StoredDecimal(sess[s].quote.new_price))]_vars

\* a token state written twice: by a buy of 0.5 and a buy of 1 token
C6_Witness == \E k \in 1..Len(tokens) : tokens[k].supply = 15000

C8_PriceFromSupplyOnly ==
    /\ \A s \in Sessions, o \in Sessions :
          (Executed(s) /\ Executed(o) /\ sess[s].read = sess[o].read
             /\ sess[s].amount = sess[o].amount /\ sess[s].ttype = sess[o].ttype)
          => sess[s].quote = sess[o].quote
    /\ \A e \in events, f \in events :
          (e.amount = f.amount /\ e.trade_type = f.trade_type /\ e.new_supply = f.new_supply)
          => (e.price = f.price /\ e.new_price = f.new_price)
    /\ \A e \in events : trades[e.trade_id].price = e.price

\* two users traded the same amount in the same direction from the same supply
C8_Witness ==
    \E e \in events, f \in events :
        /\ e.user_id # f.user_id
        /\ e.amount = f.amount /\ e.trade_type = f.trade_type /\ e.new_supply = f.new_supply

\* C9: a call of quote_trade changes no persisted state and no session, and
\* its result is the one execute_trade got for the same supply, amount and
\* direction.
C9_QuoteIsPure ==
    /\ [](\A s \in Sessions :
            (Executed(s) /\ sess[s].read = qcall.supply /\ sess[s].amount = qcall.amount
               /\ sess[s].ttype = Lower(qcall.trade_type))
            => sess[s].quote = qcall.result)
    /\ [][qcall' # qcall
          => UNCHANGED <<influencers, tokens, trades, ledger, events, sess, market>>]_vars

\* quote_trade was called with the arguments of a trade in flight, tokens circulating
C9_Witness ==
    /\ qcall.result.ok
    /\ \E s \in Sessions :
          /\ sess[s].pc = "commit"
          /\ sess[s].read = qcall.supply /\ sess[s].read > 0
          /\ sess[s].amount = qcall.amount
          /\ sess[s].ttype = Lower(qcall.trade_type)

\* C10: the supply and price of an existing token state change only in the
\* commit of an execute_trade on that state; the market-data handlers and
\* their get_or_create_state leave them as they are.
C10_OnlyExecuteWrites ==
    [][\A k \in 1..Len(tokens) :
          tokens'[k] # tokens[k]
          => \E s \in Sessions :
                sess[s].pc = "commit" /\ sess'[s].pc = "publish" /\ sess[s].state.id = k]_vars

\* the order book of an influencer with tokens in circulation was served
C10_Witness ==
    /\ market.op = "orderbook"
    /\ market.status = 200
    /\ Len(market.bids) > 0
    /\ StoredSupply(market.influencer_id) > 0

LedgerOf(i) == SelectSeq(ledger, LAMBDA r : r.influencer_id = i)

\* the change of the circulating supply a trade record stands for
SignedAmount(t) == IF t.trade_type = "buy" THEN t.amount ELSE -t.amount

\* C11: for every influencer the stored circulating supply is the sum, over
\* all users, of their wallet-ledger balances for that influencer.
C11_SupplyIsLedgerSum ==
    \A i \in InfluencerIds : StoredSupply(i) = SumAmounts(LedgerOf(i))

\* C12: no user's token balance for an influencer, the sum of the user's
\* ledger entries, is ever negative, whatever the interleaving of the user's
\* requests.
C12_BalanceNonNegative ==
    \A u \in Users, i \in InfluencerIds : Balance(u, i) >= 0

\* the trade, ledger entry by ledger entry: same user, +amount for a buy and
\* -amount for a sell
C13_RecordsPaired ==
    \A i \in InfluencerIds :
        /\ Len(TradesOf(i)) = Len(LedgerOf(i))
        /\ \A k \in 1..Len(TradesOf(i)) :
              /\ LedgerOf(i)[k].user_id = TradesOf(i)[k].user_id
              /\ LedgerOf(i)[k].amount = SignedAmount(TradesOf(i)[k])

\* C13: token state, trade record and ledger entry are persisted as one unit:
\* in every committed state an influencer has as many trade records as ledger
\* entries, each entry is +amount for a buy and -amount for a sell, and the
\* stored supply is the net amount of exactly those trades.
C13_OneUnit ==
    /\ C13_RecordsPaired
    /\ \A i \in InfluencerIds :
          StoredSupply(i) =
              SumAmounts([k \in 1..Len(TradesOf(i)) |-> [amount |-> SignedAmount(TradesOf(i)[k])]])

\* quote_trade has been called: it returned a quote or raised
QuoteCalled == qcall.result # NoQuote

\* C14: quote_trade raises the invalid-amount error for every amount <= 0,
\* whatever the direction and the current supply, and returns no quote.
C14_InvalidAmount ==
    (QuoteCalled /\ qcall.amount <= 0) => qcall.result = Raise(ErrAmount)

\* a negative amount with no direction at all, tokens circulating
C14_Witness ==
    /\ qcall.amount < 0
    /\ qcall.trade_type = None
    /\ qcall.supply > 0
    /\ qcall.result.error = ErrAmount

\* C15 as stated: quote_trade raises the invalid-direction error whenever
\* the direction is neither buy nor sell, and returns no quote.
C15_InvalidDirection ==
    (QuoteCalled /\ Lower(qcall.trade_type) \notin {"buy", "sell"})
    => qcall.result = Raise(ErrType)

\* C15: for an amount > 0 quote_trade raises the invalid-direction error
\* exactly when the direction, lower-cased, is neither buy nor sell; for an
\* amount <= 0 the invalid-amount error is raised first.  No quote is
\* returned in either case.
C15_InvalidDirectionPositive ==
    QuoteCalled =>
        /\ Lower(qcall.trade_type) \notin {"buy", "sell"}
              => qcall.result = IF qcall.amount <= 0 THEN Raise(ErrAmount) ELSE Raise(ErrType)
        /\ Lower(qcall.trade_type) \in {"buy", "sell"} => qcall.result.error # ErrType

\* a positive amount with an unknown direction
C15_Witness ==
    /\ qcall.amount > 0
    /\ qcall.trade_type = "hold"
    /\ qcall.result = Raise(ErrType)

\* C16: a sell of more than the current supply raises the
\* insufficient-supply error; a sell of 0 < amount <= current supply
\* succeeds, and a sell of the whole supply gives new_supply 0.
C16_SellBounds ==
    (QuoteCalled /\ qcall.amount > 0 /\ Lower(qcall.trade_type) = "sell")
    => IF qcall.amount > qcall.supply
       THEN qcall.result = Raise(ErrSupply)
       ELSE /\ qcall.result.ok
            /\ qcall.amount = qcall.supply => qcall.result.new_supply = 0

\* the whole supply was sold in one quote
C16_Witness ==
    /\ Lower(qcall.trade_type) = "sell"
    /\ qcall.supply > 0
    /\ qcall.amount = qcall.supply
    /\ qcall.result.ok
    /\ qcall.result.new_supply = 0

\* C17: a buy quote for supply s >= 0 and amount a > 0 has
\* avg_price = BASE_PRICE + K*(2*s + a)/2 and new_supply = s + a; for s = 0
\* and a = 100 tokens: avg_price 1.125, new_supply 100, new_price 1.25.
C17_BuyQuote ==
    (QuoteCalled /\ qcall.amount > 0 /\ Lower(qcall.trade_type) = "buy")
    => /\ qcall.result.ok
       /\ 2 * (qcall.result.avg_price - BASE_PRICE) = K * (2 * qcall.supply + qcall.amount)
       /\ qcall.result.new_supply = qcall.supply + qcall.amount
       /\ (qcall.supply = 0 /\ qcall.amount = 1000000)
             => /\ qcall.result.avg_price = 1125000000
                /\ qcall.result.new_supply = 1000000
                /\ qcall.result.new_price = 1250000000

\* the buy of 100 tokens from supply 0
C17_Witness ==
    /\ qcall.trade_type = "buy"
    /\ qcall.supply = 0
    /\ qcall.amount = 1000000
    /\ qcall.result.ok

\* C18: a sell quote for supply s and amount 0 < a <= s has
\* avg_price = BASE_PRICE + K*(2*s - a)/2 and new_supply = s - a.
C18_SellQuote ==
    (QuoteCalled /\ qcall.amount > 0 /\ Lower(qcall.trade_type) = "sell"
       /\ qcall.amount <= qcall.supply)
    => /\ qcall.result.ok
       /\ 2 * (qcall.result.avg_price - BASE_PRICE) = K * (2 * qcall.supply - qcall.amount)
       /\ qcall.result.new_supply = qcall.supply - qcall.amount

\* a sell of part of the supply
C18_Witness ==
    /\ qcall.trade_type = "sell"
    /\ qcall.amount > 0
    /\ qcall.amount < qcall.supply
    /\ qcall.result.ok

\* C20: quote_trade(s, a, buy) followed by quote_trade(s + a, a, sell):
\* the sell returns new_supply = s and the avg_price of the buy.
C20_RoundTripQuotes ==
    [][(/\ qcall.result.ok
        /\ Lower(qcall.trade_type) = "buy"
        /\ Lower(qcall'.trade_type) = "sell"
        /\ qcall'.supply = qcall.result.new_supply
        /\ qcall'.amount = qcall.amount)
       => /\ qcall'.result.ok
          /\ qcall'.result.new_supply = qcall.supply
          /\ qcall'.result.avg_price = qcall.result.avg_price]_vars

\* the sell leg of a round trip that started above supply 0
C20_Witness ==
    /\ Lower(qcall.trade_type) = "sell"
    /\ qcall.result.ok
    /\ qcall.result.new_supply = 5000
    /\ qcall.amount = 5000

\* the ids of the committed trades of influencer i
TradeIdsOf(i) == {n \in 1..Len(trades) : trades[n].influencer_id = i}

\* the last trade of influencer i committed before trade n, 0 when there is none
PrevTrade(i, n) ==
    LET before == {m \in TradeIdsOf(i) : m < n}
    IN  IF before = {} THEN 0 ELSE CHOOSE m \in before : \A j \in before : j <= m

\* every committed trade has been answered and its event published
AllPublished == \A n \in 1..Len(trades) : \E e \in events : e.trade_id = n

\* the token state trade n of influencer i left, as its event reports it; for
\* n = 0 the state before the first trade
StateAfter(i, n) ==
    IF n = 0
    THEN [supply |-> 0, price |-> BASE_PRICE]
    ELSE LET e == CHOOSE x \in events : x.trade_id = n
         IN  [supply |-> e.new_supply, price |-> e.new_price]

Stored(i) == [supply |-> StoredSupply(i), price |-> StoredPrice(i)]

\* C19: a buy of amount a followed by a sell of the same amount a on the same
\* influencer, no other trade in between, leaves the stored supply and price
\* at the values they had before the buy.  The stored state between requests
\* is the one the last trade reported; after the sell it is the one reported
\* by the trade before the buy.
C19_RoundTrip ==
    \A i \in InfluencerIds :
        LET sell == PrevTrade(i, Len(trades) + 1)
            buy == PrevTrade(i, sell)
        IN  AllPublished =>
                /\ Stored(i) = StateAfter(i, sell)
                /\ (/\ buy # 0
                    /\ trades[buy].trade_type = "buy"
                    /\ trades[sell].trade_type = "sell"
                    /\ trades[sell].amount = trades[buy].amount)
                   => Stored(i) = StateAfter(i, PrevTrade(i, buy))

\* a buy and a sell of the same amount, after an earlier buy
C19_Witness ==
    /\ AllPublished
    /\ Len(trades) = 3
    /\ trades[1].trade_type = "buy"
    /\ trades[2].trade_type = "buy"
    /\ trades[3].trade_type = "sell"
    /\ trades[3].amount = trades[2].amount
    /\ trades[1].amount # trades[2].amount
    /\ StoredSupply(1) = trades[1].amount

\* the committed rows of influencer i
RowsOf(i) == SelectSeq(tokens, LAMBDA r : r.influencer_id = i)

CurveSupplies == {0, 1, 5000, 10000, 1000000}

\* C24: the marginal price rises strictly with the supply, so every
\* successful buy strictly raises the stored price and every successful
\* sell strictly lowers it.
C24_Monotone ==
    /\ \A s1 \in CurveSupplies, s2 \in CurveSupplies :
          s1 < s2 => MarginalPrice(s1) < MarginalPrice(s2)
    /\ [][\A s \in Sessions :
            (sess[s].pc = "commit" /\ sess'[s].pc = "publish")
            => IF sess[s].ttype = "buy"
               THEN StoredPrice(sess[s].inf)' > StoredPrice(sess[s].inf)
               ELSE StoredPrice(sess[s].inf)' < StoredPrice(sess[s].inf)]_vars

\* C25: an execution that cannot get exclusive access to the token state
\* fails with a Busy error and changes nothing, so two executions for one
\* influencer are never both between their read and their commit.
C25_BusyOnContention ==
    \A s \in Sessions, o \in Sessions :
        (s # o /\ sess[s].pc = "commit" /\ sess[o].pc = "commit")
        => sess[s].inf # sess[o].inf

\* C26 as stated: the amount and price stored in a trade record and the
\* amount stored in its ledger entry are, with no rounding or truncation,
\* the amount passed to the engine and the avg_price of the quote.
C26_RecordsExact ==
    [][\A s \in Sessions :
          (sess[s].pc = "commit" /\ sess'[s].pc = "publish")
          => LET t == trades'[Len(trades')]
                 l == ledger'[Len(ledger')]
             IN  /\ t.amount = sess[s].amount
                 /\ l.amount = IF sess[s].ttype = "buy" THEN sess[s].amount ELSE -sess[s].amount
                 /\ t.price = sess[s].quote.avg_price]_vars

\* C26: the amounts stored in the trade record and in the ledger entry are
\* the amount passed to the engine (amounts of up to 8 fractional digits);
\* the price stored is the avg_price of the quote rounded to 8 fractional
\* digits: it has no ninth digit, is less than 10^-8 away from avg_price and
\* is avg_price itself when avg_price has at most 8 fractional digits.
C26_RecordsToEightDigits ==
    [][\A s \in Sessions :
          (sess[s].pc = "commit" /\ sess'[s].pc = "publish")
          => LET t == trades'[Len(trades')]
                 l == ledger'[Len(ledger')]
                 avg == sess[s].quote.avg_price
             IN  /\ t.amount = sess[s].amount
                 /\ l.amount = IF sess[s].ttype = "buy" THEN sess[s].amount ELSE -sess[s].amount
                 /\ t.price % 10 = 0
                 /\ t.price - avg < 10 /\ avg - t.price < 10
                 /\ avg % 10 = 0 => t.price = avg]_vars

\* a trade whose record keeps a price other than the one its event reports
C26_Witness ==
    \E e \in events :
        /\ e.trade_id \in 1..Len(trades)
        /\ trades[e.trade_id].price # e.price
        /\ trades[e.trade_id].amount = e.amount

\* C27: a trade.created event is published only after the commit: every
\* event refers to a committed trade record of the same user, influencer,
\* amount and direction, priced at the event's price as the column keeps
\* it; an event appears only in the step of a request that has committed,
\* and carries the avg_price, new_price and new_supply of that request's
\* quote; a request that was rejected publishes none.
C27_PublishAfterCommit ==
    /\ [](\A e \in events :
            /\ e.trade_id \in 1..Len(trades)
            /\ trades[e.trade_id].user_id = e.user_id
            /\ trades[e.trade_id].influencer_id = e.influencer_id
            /\ trades[e.trade_id].amount = e.amount
            /\ trades[e.trade_id].trade_type = e.trade_type
            /\ trades[e.trade_id].price \in NumericColumn(e.price))
    /\ [][events' # events
          => \E s \in Sessions :
                /\ sess[s].pc = "publish"
                /\ sess[s].status = 201
                /\ sess[s].trade_id \in 1..Len(trades)
                /\ \E e \in events' :
                      /\ events' = events \cup {e}
                      /\ e.trade_id = sess[s].trade_id
                      /\ e.price = sess[s].quote.avg_price
                      /\ e.new_price = sess[s].quote.new_price
                      /\ e.new_supply = sess[s].quote.new_supply]_vars

\* one trade committed and published, a later request rejected
C27_Witness ==
    /\ Cardinality(events) = 1
    /\ Len(trades) = 1
    /\ \E s \in Sessions : sess[s].pc = "failed" /\ sess[s].status = 400

\* C28: when the requests are handled one after another the engine's own
\* 'cannot sell more than circulating supply' is never raised: every sell
\* that passed the balance check of the handler asks for no more than the
\* stored supply.
C28_EngineCheckUnreached ==
    \A s \in Sessions :
        /\ sess[s].err # ErrSupply
        /\ (sess[s].pc \in {"execute", "insert"} /\ sess[s].ttype = "sell")
              => sess[s].amount <= StoredSupply(sess[s].inf)

\* a user sells all they hold while another user still holds tokens
C28_Witness ==
    /\ sess["w1"].pc = "commit"
    /\ sess["w1"].ttype = "sell"
    /\ sess["w1"].amount = Balance(sess["w1"].user, sess["w1"].inf)
    /\ sess["w1"].amount < sess["w1"].read

\* twice the premium of an average price over BASE_PRICE, in units of K:
\* 2*s + a for a buy, 2*s - a for a sell
Premium(p) == (2 * (p - BASE_PRICE)) \div K

\* C29: pricing is path-independent: two buys (or two sells) of a and b in
\* a row leave the stored supply and price a single trade of a + b from the
\* same start gives, and cost the same in total.  The totals
\* a*avg1 + b*avg2 and (a+b)*avg3 are compared after taking
\* (a+b)*BASE_PRICE from both and dividing by K/2, which is exact.
C29_PathIndependent ==
    \A i \in InfluencerIds :
        LET second == PrevTrade(i, Len(trades) + 1)
            first == PrevTrade(i, second)
        IN  (AllPublished /\ first # 0 /\ trades[first].trade_type = trades[second].trade_type)
            => LET a == trades[first].amount
                   b == trades[second].amount
                   start == StateAfter(i, PrevTrade(i, first))
                   e1 == CHOOSE x \in events : x.trade_id = first
                   e2 == CHOOSE x \in events : x.trade_id = second
                   q3 == quote_trade(start.supply, a + b, trades[first].trade_type)
               IN  /\ q3.ok
                   /\ Stored(i) = [supply |-> q3.new_supply, price |-> q3.new_price]
                   /\ Premium(e1.price) * K = 2 * (e1.price - BASE_PRICE)
                   /\ Premium(e2.price) * K = 2 * (e2.price - BASE_PRICE)
                   /\ Premium(q3.avg_price) * K = 2 * (q3.avg_price - BASE_PRICE)
                   /\ a * Premium(e1.price) + b * Premium(e2.price) = (a + b) * Premium(q3.avg_price)

\* a buy of 1 token sold back in two halves
C29_Witness ==
    /\ AllPublished
    /\ Len(trades) = 3
    /\ trades[1].trade_type = "buy"
    /\ trades[2].trade_type = "sell"
    /\ trades[3].trade_type = "sell"
    /\ trades[2].amount + trades[3].amount = trades[1].amount

\* C30: the orderbook query never fails with a quote error, for any stored
\* supply and any levels value: it answers with 1 to 7 ask levels, a bid
\* per level whose amount is the smaller of the level amount and the
\* supply, and no bids when the supply is 0.
C30_OrderbookTotal ==
    market.op = "orderbook"
    => /\ market.status \in {200, 404}
       /\ market.status = 200
             => /\ Len(market.asks) \in 1..7
                /\ \A k \in 1..Len(market.asks) :
                      market.asks[k].ok /\ market.asks[k].amount = BaseAmounts[k]
                /\ IF market.supply = 0
                   THEN market.bids = <<>>
                   ELSE /\ Len(market.bids) = Len(market.asks)
                        /\ \A k \in 1..Len(market.bids) :
                              /\ market.bids[k].ok
                              /\ market.bids[k].amount = Min(BaseAmounts[k], market.supply)

\* seven levels at a supply of 1.5 tokens: the first bid is the level
\* amount, the others are the supply
C30_Witness ==
    /\ market.op = "orderbook"
    /\ market.status = 200
    /\ Len(market.asks) = 7
    /\ market.supply = 15000
    /\ market.bids[1].amount = 10000
    /\ market.bids[2].amount = 15000

=============================================================================
